---- MODULE Spec2Model ----
(***************************************************************************)
(* Hybrid fraud reasoning: the rag-service (/explain) and the              *)
(* ai-score-service (/score).                                              *)
(*                                                                         *)
(* Representation.                                                         *)
(*  - A float score is the integer number of 1e-5 units it holds           *)
(*    (0.825 is 82500, 0.6999 is 69990), so that rounding to 4 decimals    *)
(*    and the >= thresholds are computed, not assumed.  The scores drawn   *)
(*    never sit exactly on a rounding tie (a fifth decimal of 5).          *)
(*  - A rule flag and a keyword are sequences of characters, so that       *)
(*    lower() and the substring test are computed character by character. *)
(*  - A longer text (a knowledge entry, the context, a summary) is a       *)
(*    sequence of segments: every "." and every "\n" of the text is a      *)
(*    segment of its own, and no other segment holds one.                  *)
(*  - Iterating a Python set of str follows the strings' hashes, which a   *)
(*    process draws at start-up (hash randomisation): hashSeed is that     *)
(*    draw, and the iteration order is the order of the hashes.            *)
(***************************************************************************)
EXTENDS Integers, Sequences, FiniteSets, TLC

VARIABLES
  hashSeed,   \* rag-service: the str hash seed of the running process
  inbox,      \* rag-service: the /explain requests in flight, oldest first
  request,    \* rag-service: the request of the latest decision
  context,    \* rag-service: the context retrieved for it
  response,   \* rag-service: the RagResponse returned for it
  previous,   \* rag-service: the decision returned before the latest one
  model,      \* ai-score-service: the module-level model ("None" when absent)
  call,       \* ai-score-service: the /score call in flight or just served
  reply       \* ai-score-service: what the call returned or raised

vars == <<hashSeed, inbox, request, context, response, previous, model, call, reply>>

----------------------------------------------------------------------------
(* Bounds of the model. *)

\* longest ruleFlags list of a request
MaxFlags == 2
\* number of distinct hash seeds a process start may draw
NumSeeds == 2
\* longest feature payload of a /score request
MaxFeatures == 8

----------------------------------------------------------------------------
(* rag-service: the static tables. *)

KNOWLEDGE_DB ==
  [ AMOUNT_HIGH |->
      << "High transaction amounts are often correlated with account takeover or mule activity", "." >>,
    VELOCITY_REAPPLY |->
      << "Applying for a loan multiple times within a short period suggests rule evasion or high risk, relating to the 'second time within 24 hours' rule", "." >>,
    IDENTITY_MISMATCH |->
      << "A discrepancy with NID or TIN registration suggests identity fraud or synthetic identity attempts", "." >>,
    ACTIVE_LOAN_CHECK |->
      << "The presence of an existing active loan often correlates with debt stacking and solvency risk", "." >>,
    NEW_DEVICE_LOGIN |->
      << "A new device being used to log in or transact increases the probability of fraud, especially if geolocation changes", "." >>,
    AI_ANOMALY |->
      << "The AI Anomaly Detection Model has flagged a significant risk driver that is too subtle for manual rules", "." >> ]

\* the keys of KNOWLEDGE_DB in declaration order
KNOWLEDGE_KEYS ==
  << "AMOUNT_HIGH", "VELOCITY_REAPPLY", "IDENTITY_MISMATCH",
     "ACTIVE_LOAN_CHECK", "NEW_DEVICE_LOGIN", "AI_ANOMALY" >>

\* the items of FLAG_KEYWORD_MAP in declaration order (a dict iterates in it)
FLAG_KEYWORD_MAP ==
  << [keyword |-> <<"a","m","o","u","n","t">>,                     db_key |-> "AMOUNT_HIGH"],
     [keyword |-> <<"r","e","a","p","p","l","y">>,                 db_key |-> "VELOCITY_REAPPLY"],
     [keyword |-> <<"2","4"," ","h","o","u","r","s">>,             db_key |-> "VELOCITY_REAPPLY"],
     [keyword |-> <<"t","i","n">>,                                 db_key |-> "IDENTITY_MISMATCH"],
     [keyword |-> <<"n","i","d">>,                                 db_key |-> "IDENTITY_MISMATCH"],
     [keyword |-> <<"k","y","c">>,                                 db_key |-> "IDENTITY_MISMATCH"],
     [keyword |-> <<"a","c","t","i","v","e"," ","l","o","a","n">>, db_key |-> "ACTIVE_LOAN_CHECK"],
     [keyword |-> <<"d","e","v","i","c","e">>,                     db_key |-> "NEW_DEVICE_LOGIN"] >>

----------------------------------------------------------------------------
(* Strings. *)

UpperCase ==
  <<"A","B","C","D","E","F","G","H","I","J","K","L","M","N","O","P","Q","R","S","T","U","V","W","X","Y","Z">>

LowerCase ==
  <<"a","b","c","d","e","f","g","h","i","j","k","l","m","n","o","p","q","r","s","t","u","v","w","x","y","z">>

\* str.lower() on one character
LowerChar(c) ==
  IF \E i \in 1..Len(UpperCase) : UpperCase[i] = c
  THEN LowerCase[CHOOSE i \in 1..Len(UpperCase) : UpperCase[i] = c]
  ELSE c

\* str.lower()
lower(s) == [i \in 1..Len(s) |-> LowerChar(s[i])]

\* keyword in flag_lower
IsSubstring(k, s) ==
  \E i \in 0..(Len(s) - Len(k)) : SubSeq(s, i + 1, i + Len(k)) = k

\* sep.join(parts), each part and sep a sequence
RECURSIVE Join(_, _)
Join(parts, sep) ==
  IF parts = <<>> THEN <<>>
  ELSE IF Len(parts) = 1 THEN parts[1]
  ELSE parts[1] \o sep \o Join(Tail(parts), sep)

\* text.split('.')[0]: the segments before the first "."
RECURSIVE BeforeFirstDot(_)
BeforeFirstDot(text) ==
  IF text = <<>> \/ Head(text) = "." THEN <<>>
  ELSE <<Head(text)>> \o BeforeFirstDot(Tail(text))

\* round(x, n) and the :.nf formats: x to the nearest multiple of step
RoundTo(x, step) == ((x + (step \div 2)) \div step) * step

----------------------------------------------------------------------------
(* rag-service: retrieve_knowledge. *)

\* hash(key) under the process's seed: a permutation of the keys' positions
HashOf(k, seed) ==
  LET i == CHOOSE j \in 1..Len(KNOWLEDGE_KEYS) : KNOWLEDGE_KEYS[j] = k
      mult == <<1, 6, 3, 5, 2, 4>>[((seed - 1) % 6) + 1]
  IN  (i * mult) % (Len(KNOWLEDGE_KEYS) + 1)

\* iterating the set: its members in the order of their hashes
RECURSIVE SetIteration(_, _)
SetIteration(S, seed) ==
  IF S = {} THEN <<>>
  ELSE LET k == CHOOSE x \in S : \A y \in S : HashOf(x, seed) <= HashOf(y, seed)
       IN  <<k>> \o SetIteration(S \ {k}, seed)

\* match_flag without the break: every rule the flag holds is applied
allMatchesFlag(flag) ==
  LET flag_lower == lower(flag)
  IN  { FLAG_KEYWORD_MAP[i].db_key :
          i \in { j \in 1..Len(FLAG_KEYWORD_MAP) :
                    IsSubstring(FLAG_KEYWORD_MAP[j].keyword, flag_lower) } }

\* the inner loop over FLAG_KEYWORD_MAP.items(), for one flag: the db_key of
\* the first keyword found in the lowered flag, then break
match_flag(flag) ==
  LET flag_lower == lower(flag)
      hits == { j \in 1..Len(FLAG_KEYWORD_MAP) :
                  IsSubstring(FLAG_KEYWORD_MAP[j].keyword, flag_lower) }
  IN  IF hits = {} THEN {}
      ELSE { FLAG_KEYWORD_MAP[CHOOSE j \in hits : \A h \in hits : j <= h].db_key }

\* anomaly_keys with > for >=
strictAnomalyKeys(ai_score) ==
  IF ai_score > 60000 THEN {"AI_ANOMALY"} ELSE {}

\* step 2 of retrieve_knowledge: the AI-only key
anomaly_keys(ai_score) ==
  IF ai_score >= 60000 THEN {"AI_ANOMALY"} ELSE {}

\* retrieved_keys after both steps
retrieved_keys(rule_flags, ai_score) ==
  UNION { match_flag(rule_flags[i]) : i \in 1..Len(rule_flags) }
    \cup anomaly_keys(ai_score)

retrieve_knowledge(rule_flags, ai_score, seed) ==
  LET order == SetIteration(retrieved_keys(rule_flags, ai_score), seed)
  IN  Join([i \in 1..Len(order) |-> KNOWLEDGE_DB[order[i]]], <<"\n">>)

----------------------------------------------------------------------------
(* rag-service: generate_reasoning_and_risk. *)

\* list(request.topFeatures.keys())
FeatureNames(topFeatures) == [i \in 1..Len(topFeatures) |-> topFeatures[i][1]]

\* confidence_of cutting the fifth decimal instead of rounding
truncatedConfidence(ai_score) == (ai_score \div 10) * 10

\* confidence = round(ai_score, 4)
confidence_of(ai_score) == RoundTo(ai_score, 10)

\* severity_label forgetting the number of flags
scoreOnlySeverity(ai_score, num_rules_triggered) ==
  IF ai_score >= 70000 THEN "Severe" ELSE "Moderate"

\* severity of the rule-flag fallback
severity_label(ai_score, num_rules_triggered) ==
  IF ai_score >= 70000 \/ num_rules_triggered >= 2 THEN "Severe" ELSE "Moderate"

\* explanation with its first two branches swapped
flagsFirstExplanation(ctx, req) ==
  LET num_rules_triggered == Len(req.ruleFlags)
  IN  IF num_rules_triggered > 0
      THEN [ context_source |-> "Rule Flags",
             summary_context |->
               << "Triggered ", severity_label(req.aiScore, num_rules_triggered),
                  " rule flags: " >> \o Join(req.ruleFlags, <<",", " ">>) ]
      ELSE IF ctx # <<>>
      THEN [ context_source |-> "RAG policy context",
             summary_context |-> BeforeFirstDot(ctx) ]
      ELSE [ context_source |-> "AI Anomaly",
             summary_context |-> << "AI anomaly detected (no specific rule match)", "." >> ]

\* Context Determination: the explanation source and its summary
explanation(ctx, req) ==
  LET num_rules_triggered == Len(req.ruleFlags)
  IN  IF ctx # <<>>
      THEN [ context_source |-> "RAG policy context",
             summary_context |-> BeforeFirstDot(ctx) ]
      ELSE IF num_rules_triggered > 0
      THEN [ context_source |-> "Rule Flags",
             summary_context |->
               << "Triggered ", severity_label(req.aiScore, num_rules_triggered),
                  " rule flags: " >> \o Join(req.ruleFlags, <<",", " ">>) ]
      ELSE [ context_source |-> "AI Anomaly",
             summary_context |-> << "AI anomaly detected (no specific rule match)", "." >> ]

\* risk_category with > for >= on the score
strictRiskCategory(ai_score, num_rules_triggered) ==
  IF ai_score > 70000 \/ num_rules_triggered >= 2 THEN "HIGH"
  ELSE IF ai_score > 40000 \/ num_rules_triggered >= 1 THEN "MEDIUM"
  ELSE "LOW"

\* risk_category with the MEDIUM comparison turned round
flippedRiskCategory(ai_score, num_rules_triggered) ==
  IF ai_score >= 70000 \/ num_rules_triggered >= 2 THEN "HIGH"
  ELSE IF ai_score <= 40000 \/ num_rules_triggered >= 1 THEN "MEDIUM"
  ELSE "LOW"

\* Hybrid Decision Logic: the band
risk_category(ai_score, num_rules_triggered) ==
  IF ai_score >= 70000 \/ num_rules_triggered >= 2 THEN "HIGH"
  ELSE IF ai_score >= 40000 \/ num_rules_triggered >= 1 THEN "MEDIUM"
  ELSE "LOW"

\* the rendered f-string of the band, as the values it interpolates
reasoning_text(band, confidence, expl, req) ==
  LET num_rules_triggered == Len(req.ruleFlags)
      percent == RoundTo(confidence * 100, 1000)
  IN  IF band = "HIGH"
      THEN [ template |-> "HIGH RISK", percent |-> percent,
             num_rules |-> num_rules_triggered,
             score |-> RoundTo(req.aiScore, 10),
             source |-> expl.context_source,
             summary |-> expl.summary_context,
             features |-> FeatureNames(req.topFeatures) ]
      ELSE IF band = "MEDIUM"
      THEN [ template |-> "MEDIUM RISK", percent |-> percent,
             trigger |-> IF num_rules_triggered > 0 THEN "Rule Flags"
                         ELSE "a moderate AI anomaly",
             source |-> expl.context_source,
             summary |-> expl.summary_context,
             features |-> FeatureNames(req.topFeatures) ]
      ELSE [ template |-> "LOW RISK", percent |-> percent ]

generate_reasoning_and_risk(ctx, req) ==
  LET num_rules_triggered == Len(req.ruleFlags)
      ai_score == req.aiScore
      confidence == confidence_of(ai_score)
      expl == explanation(ctx, req)
      band == risk_category(ai_score, num_rules_triggered)
  IN  [ reasoning |-> reasoning_text(band, confidence, expl, req),
        riskCategory |-> band,
        confidence |-> confidence ]

----------------------------------------------------------------------------
(* rag-service: the requests drawn. *)

REAPPLY_VELOCITY_24_HOURS ==
  <<"R","E","A","P","P","L","Y","_","V","E","L","O","C","I","T","Y","_","2","4","_","H","O","U","R","S">>

AMOUNT_OVER_10K == <<"A","M","O","U","N","T","_","O","V","E","R","_","1","0","K">>

NEW_DEVICE_FLAG == <<"N","E","W","_","D","E","V","I","C","E","_","L","O","G","I","N">>

unrelated_flag_xyz == <<"u","n","r","e","l","a","t","e","d","_","f","l","a","g","_","x","y","z">>

\* holds two keywords of different entries: "device" and, earlier in the map, "amount"
Device_Amount_Spike == <<"D","e","v","i","c","e","_","A","m","o","u","n","t","_","S","p","i","k","e">>

\* "active_loan" is not "active loan"
ACTIVE_LOAN == <<"A","C","T","I","V","E","_","L","O","A","N">>

\* "routing" holds "tin"
ROUTING_MISMATCH == <<"R","O","U","T","I","N","G","_","M","I","S","M","A","T","C","H">>

RuleFlags ==
  { REAPPLY_VELOCITY_24_HOURS, AMOUNT_OVER_10K, NEW_DEVICE_FLAG,
    unrelated_flag_xyz, Device_Amount_Spike, ACTIVE_LOAN, ROUTING_MISMATCH }

FlagLists(flags, n) == UNION { [1..k -> flags] : k \in 0..n }

\* aiScore in 1e-5 units, within ge=0.0, le=1.0
Scores ==
  { 0, 5000, 10000, 39990, 39996, 40000, 50000, 59994, 60000, 65000,
    69990, 69997, 70000, 82500, 100000 }

TopFeatureChoices ==
  { <<>>, << <<"V14", 45500>>, <<"V4", 42630>>, <<"Amount", 782440>> >> }

Requests ==
  [ applicantId : {"A123456"},
    ruleFlags : FlagLists(RuleFlags, MaxFlags),
    aiScore : Scores,
    topFeatures : TopFeatureChoices ]

\* the smaller draw for two requests in flight
AuditRequests ==
  [ applicantId : {"A123456"},
    ruleFlags : FlagLists({REAPPLY_VELOCITY_24_HOURS, AMOUNT_OVER_10K}, MaxFlags),
    aiScore : {5000, 39990, 40000, 50000, 65000, 69990, 70000, 82500},
    topFeatures : {<<>>} ]

NoRequest == [ applicantId |-> "" ]
NoResponse == [ riskCategory |-> "" ]
NoDecision == [ request |-> NoRequest, context |-> <<>>, response |-> NoResponse ]

----------------------------------------------------------------------------
(* rag-service: the process. *)

\* POST /explain, for the oldest request in flight
reason_orchestrator ==
  /\ inbox # <<>>
  /\ LET req == Head(inbox)
         ctx == retrieve_knowledge(req.ruleFlags, req.aiScore, hashSeed)
     IN  /\ request' = req
         /\ context' = ctx
         /\ response' = generate_reasoning_and_risk(ctx, req)
  /\ inbox' = Tail(inbox)
  /\ previous' = [ request |-> request, context |-> context, response |-> response ]
  /\ UNCHANGED <<hashSeed, model, call, reply>>

\* the process is started again (a redeploy, another worker): str hashes are
\* drawn anew; the tables are rebuilt as they were
Restart ==
  /\ hashSeed' \in 1..NumSeeds
  /\ hashSeed' # hashSeed
  /\ UNCHANGED <<inbox, request, context, response, previous, model, call, reply>>

----------------------------------------------------------------------------
(* ai-score-service. *)

TOP_N_FEATURES == 5

\* what joblib.load and the hasattr check leave in the module-level model
load_model(outcome) ==
  IF outcome = "loaded" THEN "lgb_model" ELSE "None"

LoadOutcomes == { "loaded", "FileNotFoundError", "AttributeError", "Exception" }

Abs(x) == IF x < 0 THEN -x ELSE x

\* InsertByMagnitude without abs()
InsertByValue(item, sorted) ==
  LET before == { i \in 1..Len(sorted) : sorted[i][2] >= item[2] }
      n == Cardinality(before)
  IN  SubSeq(sorted, 1, n) \o <<item>> \o SubSeq(sorted, n + 1, Len(sorted))

\* one item put into a list kept in descending order of magnitude, after the
\* items whose magnitude is not smaller: sorted() is stable, also with
\* reverse=True
InsertByMagnitude(item, sorted) ==
  LET before == { i \in 1..Len(sorted) : Abs(sorted[i][2]) >= Abs(item[2]) }
      n == Cardinality(before)
  IN  SubSeq(sorted, 1, n) \o <<item>> \o SubSeq(sorted, n + 1, Len(sorted))

\* sorted(feature_list, key=lambda item: abs(item[1]), reverse=True)
RECURSIVE SortedFrom(_, _)
SortedFrom(feature_list, sorted) ==
  IF feature_list = <<>> THEN sorted
  ELSE SortedFrom(Tail(feature_list), InsertByMagnitude(Head(feature_list), sorted))

sorted_features(feature_list) == SortedFrom(feature_list, <<>>)

\* dict(sorted_features[:TOP_N_FEATURES]): the names are distinct, the dict keeps
\* the list's order
top_n_features_dict(features_dict) ==
  LET sorted == sorted_features(features_dict)
  IN  SubSeq(sorted, 1, IF Len(sorted) < TOP_N_FEATURES THEN Len(sorted) ELSE TOP_N_FEATURES)

\* score_reply without the model-is-None check: predicting on None raises
uncheckedModelReply(m, c) ==
  IF c.frame = "raises"
  THEN [ status |-> 422, detail |-> "Could not convert features to DataFrame" ]
  ELSE IF m = "None" \/ c.proba.raises \/ Len(c.proba.row) < 2
  THEN [ status |-> 500, detail |-> "Probability prediction failed" ]
  ELSE [ status |-> 200, score |-> c.proba.row[2],
         result |-> top_n_features_dict(c.features) ]

\* score_request: the response, or the HTTPException raised
score_reply(m, c) ==
  IF m = "None"
  THEN [ status |-> 503, detail |-> "Model is not loaded" ]
  ELSE IF c.frame = "raises"
  THEN [ status |-> 422, detail |-> "Could not convert features to DataFrame" ]
  ELSE IF c.proba.raises \/ Len(c.proba.row) < 2
  THEN [ status |-> 500, detail |-> "Probability prediction failed" ]
  ELSE [ status |-> 200, score |-> c.proba.row[2],
         result |-> top_n_features_dict(c.features) ]

\* feature names, all distinct
FEATURE_NAMES ==
  << "Time", "Amount", "V1", "V2", "V3", "V4", "V5", "V6", "V7", "V8", "V9", "V10" >>

NamedFeatures(values) == [i \in 1..Len(values) |-> <<FEATURE_NAMES[i], values[i]>>]

\* short payloads over few values: equal magnitudes and both signs occur
ShortPayloads ==
  { NamedFeatures(v) : v \in UNION { [1..n -> {-2, -1, 1, 2}] : n \in 0..3 } }

\* payloads of every length whose magnitudes are all distinct
DistinctPayloads ==
  { NamedFeatures([i \in 1..n |->
        (IF (i + c) % 2 = 0 THEN -1 ELSE 1) * (((i * k + c) % 11) + 1)]) :
      n \in 1..MaxFeatures, k \in 1..3, c \in 0..2 }

\* row 0 of what predict_proba returns
ProbaRows == { <<100000>>, <<17500, 82500>>, <<100000, 0>>, <<30000, 30000, 40000>> }

ScoreCalls ==
  [ features : ShortPayloads \cup DistinctPayloads,
    frame : {"ok", "raises"},
    proba : [ raises : {FALSE}, row : ProbaRows ] \cup { [raises |-> TRUE, row |-> <<>>] } ]

\* POST /score
score_request ==
  /\ reply = <<>>
  /\ reply' = <<score_reply(model, call)>>
  /\ UNCHANGED <<model, call, hashSeed, inbox, request, context, response, previous>>

----------------------------------------------------------------------------
(* The specifications. *)

RagIdle ==
  /\ request = NoRequest
  /\ context = <<>>
  /\ response = NoResponse
  /\ previous = NoDecision

Init ==
  /\ hashSeed \in 1..NumSeeds
  /\ inbox \in { <<r>> : r \in Requests }
  /\ RagIdle
  /\ model = "None"
  /\ call = [ features |-> <<>> ]
  /\ reply = <<>>

InitPair ==
  /\ hashSeed \in 1..NumSeeds
  /\ inbox \in { <<r1, r2>> : r1 \in AuditRequests, r2 \in AuditRequests }
  /\ RagIdle
  /\ model = "None"
  /\ call = [ features |-> <<>> ]
  /\ reply = <<>>

InitScore ==
  /\ \E outcome \in LoadOutcomes : model = load_model(outcome)
  /\ call \in ScoreCalls
  /\ reply = <<>>
  /\ hashSeed = 1
  /\ inbox = <<>>
  /\ RagIdle

Next == reason_orchestrator \/ Restart

Spec == Init /\ [][Next]_vars

SpecPair == InitPair /\ [][Next]_vars

SpecScore == InitScore /\ [][score_request]_vars

----------------------------------------------------------------------------
(* What the claims are stated with. *)

Served == response # NoResponse

ServedTwice == Served /\ previous.response # NoResponse

Replied == reply # <<>>

\* the knowledge entry of key is part of the context text
HasEntry(ctx, key) == \E i \in 1..Len(ctx) : ctx[i] = KNOWLEDGE_DB[key][1]

\* read off FLAG_KEYWORD_MAP by hand, flag by flag: the key a flag stands for
ExpectedKeys(flag) ==
  CASE flag = REAPPLY_VELOCITY_24_HOURS -> {"VELOCITY_REAPPLY"}
    [] flag = AMOUNT_OVER_10K -> {"AMOUNT_HIGH"}
    [] flag = NEW_DEVICE_FLAG -> {"NEW_DEVICE_LOGIN"}
    [] flag = Device_Amount_Spike -> {"AMOUNT_HIGH"}
    [] flag = ROUTING_MISMATCH -> {"IDENTITY_MISMATCH"}
    [] flag = unrelated_flag_xyz -> {}
    [] flag = ACTIVE_LOAN -> {}

NoFlagMatches(flags) == \A i \in 1..Len(flags) : ExpectedKeys(flags[i]) = {}

BandRank(band) == CASE band = "LOW" -> 0 [] band = "MEDIUM" -> 1 [] band = "HIGH" -> 2

\* summary is the text of ctx before its first "."
IsFirstSentence(summary, ctx) ==
  /\ Len(summary) <= Len(ctx)
  /\ \A i \in 1..Len(summary) : summary[i] = ctx[i] /\ summary[i] # "."
  /\ Len(summary) < Len(ctx) => ctx[Len(summary) + 1] = "."

----------------------------------------------------------------------------
(* The claims. *)

\* C1: the band is HIGH if aiScore >= 0.7 or there are 2 or more flags, else
\* MEDIUM if aiScore >= 0.4 or there is a flag, else LOW; the bounds are closed
\* (0.7 is HIGH, 0.4 with no flag is MEDIUM, 0.6999 with at most one flag is not
\* HIGH, 0.3999 with no flag is LOW); nothing but the score and the number of
\* flags decides it.
C1_BandByThresholds ==
  Served =>
    LET s == request.aiScore
        n == Len(request.ruleFlags)
        band == response.riskCategory
    IN  /\ band = IF s >= 70000 \/ n >= 2 THEN "HIGH"
                  ELSE IF s >= 40000 \/ n >= 1 THEN "MEDIUM"
                  ELSE "LOW"
        /\ s = 70000 => band = "HIGH"
        /\ (s = 40000 /\ n = 0) => band = "MEDIUM"
        /\ (s = 69990 /\ n <= 1) => band # "HIGH"
        /\ (s = 39990 /\ n = 0) => band = "LOW"

C1_Witness ==
  /\ Served
  /\ request.aiScore = 70000
  /\ request.ruleFlags = <<>>
  /\ response.riskCategory = "HIGH"

\* C2: two calls with the same ruleFlags and aiScore return the same context
\* text, whatever the set's iteration order.
C2_SameInputSameContext ==
  (ServedTwice /\ previous.request = request) => previous.context = context

\* C3: a non-empty context always makes the policy context the source, with
\* the context's first sentence as the summary, flags or no flags; the rule
\* flags are the source only with an empty context and a flag; the anomaly-only
\* source only with an empty context and no flag; a score in [0.6, 0.7) with no
\* flag is explained by the AI-anomaly entry.
C3_SourcePriority ==
  Served =>
    LET n == Len(request.ruleFlags)
        s == request.aiScore
        r == response.reasoning
        rendered == response.riskCategory # "LOW"
    IN  /\ context # <<>> =>
             /\ rendered
             /\ r.source = "RAG policy context"
             /\ IsFirstSentence(r.summary, context)
        /\ (rendered /\ r.source = "Rule Flags") => (context = <<>> /\ n >= 1)
        /\ (rendered /\ r.source = "AI Anomaly") => (context = <<>> /\ n = 0)
        /\ (rendered /\ context = <<>> /\ n >= 1) => r.source = "Rule Flags"
        /\ (rendered /\ context = <<>> /\ n = 0) => r.source = "AI Anomaly"
        /\ (s >= 60000 /\ s < 70000 /\ n = 0) =>
             /\ rendered
             /\ r.source = "RAG policy context"
             /\ r.summary = <<KNOWLEDGE_DB["AI_ANOMALY"][1]>>

C3_Witness ==
  /\ Served
  /\ request.ruleFlags # <<>>
  /\ context # <<>>
  /\ response.reasoning.source = "RAG policy context"
  /\ response.reasoning.summary # <<>>

\* C4: the band is one of LOW < MEDIUM < HIGH, and of two decisions the one
\* with the score and the number of flags both at least as large has a band at
\* least as high.
C4_BandMonotone ==
  ServedTwice =>
    /\ response.riskCategory \in {"LOW", "MEDIUM", "HIGH"}
    /\ previous.response.riskCategory \in {"LOW", "MEDIUM", "HIGH"}
    /\ ( /\ previous.request.aiScore <= request.aiScore
         /\ Len(previous.request.ruleFlags) <= Len(request.ruleFlags) )
       => BandRank(previous.response.riskCategory) <= BandRank(response.riskCategory)

C4_Witness ==
  /\ ServedTwice
  /\ previous.request.aiScore < request.aiScore
  /\ Len(previous.request.ruleFlags) = Len(request.ruleFlags)
  /\ previous.response.riskCategory = "LOW"
  /\ response.riskCategory = "HIGH"

\* C5: a flag brings the entry of the first keyword rule it holds and no
\* other; a flag holding no keyword brings nothing, yet counts for the band.
C5_FirstMatchPerFlag ==
  Served =>
    LET flags == request.ruleFlags
        n == Len(flags)
        s == request.aiScore
        entries == { k \in DOMAIN KNOWLEDGE_DB \ {"AI_ANOMALY"} : HasEntry(context, k) }
    IN  /\ entries = UNION { ExpectedKeys(flags[i]) : i \in 1..n }
        /\ Cardinality(entries) <= n
        /\ (NoFlagMatches(flags) /\ n = 1 /\ s < 40000) => response.riskCategory = "MEDIUM"
        /\ (NoFlagMatches(flags) /\ n >= 2) => response.riskCategory = "HIGH"

C5_Witness ==
  /\ Served
  /\ request.ruleFlags = <<Device_Amount_Spike>>
  /\ HasEntry(context, "AMOUNT_HIGH")
  /\ ~HasEntry(context, "NEW_DEVICE_LOGIN")

\* C6: the AI_ANOMALY entry is in the context exactly when aiScore >= 0.6,
\* whatever the flags; with no flag matching, the context is non-empty exactly
\* then.
C6_AnomalyEntryAtThreshold ==
  Served =>
    LET flags == request.ruleFlags
        s == request.aiScore
    IN  /\ HasEntry(context, "AI_ANOMALY") <=> s >= 60000
        /\ NoFlagMatches(flags) => (context # <<>> <=> s >= 60000)
        /\ (flags = <<unrelated_flag_xyz>> /\ s = 65000) =>
             (context # <<>> /\ response.riskCategory = "MEDIUM")
        /\ (flags = <<>> /\ s = 50000) =>
             /\ context = <<>>
             /\ response.riskCategory = "MEDIUM"
             /\ response.reasoning.source = "AI Anomaly"

C6_Witness ==
  /\ Served
  /\ request.ruleFlags = <<unrelated_flag_xyz>>
  /\ request.aiScore = 60000
  /\ context = KNOWLEDGE_DB["AI_ANOMALY"]
  /\ response.riskCategory = "MEDIUM"

\* C7: the confidence is aiScore rounded to 4 decimals (the nearest multiple
\* of 1e-4), in every band.
C7_ConfidenceIsRoundedScore ==
  Served =>
    /\ response.confidence % 10 = 0
    /\ 2 * Abs(response.confidence - request.aiScore) <= 10

C7_Witness ==
  /\ Served
  /\ request.aiScore = 39996
  /\ response.confidence = 40000
  /\ response.riskCategory = "LOW"

\* C8: without a model every call ends in 503 and returns no score; 503, 422
\* and 500 each report their own failure, and a score comes back only when
\* none of them happened.
C8_DistinctFailures ==
  Replied =>
    LET r == reply[1]
        unavailable == model = "None"
        unshapeable == call.frame = "raises"
        unpredictable == call.proba.raises \/ Len(call.proba.row) < 2
    IN  /\ unavailable => r.status = 503
        /\ r.status = 503 <=> unavailable
        /\ r.status = 422 <=> (~unavailable /\ unshapeable)
        /\ r.status = 500 <=> (~unavailable /\ ~unshapeable /\ unpredictable)
        /\ r.status = 200 <=> (~unavailable /\ ~unshapeable /\ ~unpredictable)
        /\ r.status \in {200, 422, 500, 503}
        /\ "score" \in DOMAIN r <=> r.status = 200
        /\ r.status = 200 => r.score = call.proba.row[2]

C8_Witness ==
  /\ Replied
  /\ model = "None"
  /\ call.frame = "raises"
  /\ call.proba.raises
  /\ reply[1].status = 503

\* C9: the result of a successful call holds min(5, number of features)
\* entries: supplied features with their signed values, in descending order of
\* absolute value, none smaller in magnitude than a feature left out.
C9_TopFeatures ==
  (Replied /\ reply[1].status = 200) =>
    LET res == reply[1].result
        f == call.features
        chosen == { res[i] : i \in 1..Len(res) }
    IN  /\ Len(res) = IF Len(f) < 5 THEN Len(f) ELSE 5
        /\ Cardinality(chosen) = Len(res)
        /\ \A i \in 1..Len(res) : \E j \in 1..Len(f) : f[j] = res[i]
        /\ \A i \in 1..(Len(res) - 1) : Abs(res[i][2]) >= Abs(res[i + 1][2])
        /\ \A j \in 1..Len(f) :
             f[j] \notin chosen => \A i \in 1..Len(res) : Abs(f[j][2]) <= Abs(res[i][2])

C9_Witness ==
  /\ Replied
  /\ reply[1].status = 200
  /\ Len(call.features) = 8
  /\ \A i, j \in 1..8 : i # j => Abs(call.features[i][2]) # Abs(call.features[j][2])
  /\ Len(reply[1].result) = 5
  /\ \E i \in 1..5 : reply[1].result[i][2] < 0
  /\ reply[1].result[1] # call.features[1]

\* C10: a HIGH decision is never explained by the anomaly-only source; a LOW
\* decision has an empty context and no flag; under the rule-flag source the
\* label is Severe exactly in HIGH and Moderate exactly in MEDIUM.
C10_SourceAgreesWithBand ==
  Served =>
    LET band == response.riskCategory
        r == response.reasoning
    IN  /\ band = "HIGH" => r.source # "AI Anomaly"
        /\ band = "LOW" => (context = <<>> /\ request.ruleFlags = <<>>)
        /\ (band # "LOW" /\ r.source = "Rule Flags") =>
             /\ r.summary[2] \in {"Severe", "Moderate"}
             /\ r.summary[2] = "Severe" <=> band = "HIGH"
             /\ r.summary[2] = "Moderate" <=> band = "MEDIUM"

C10_Witness ==
  /\ Served
  /\ response.riskCategory = "HIGH"
  /\ response.reasoning.source = "Rule Flags"
  /\ response.reasoning.summary[2] = "Severe"
  /\ request.aiScore < 40000

====
